---- MODULE Spec2Model ----
(***************************************************************************)
(* Model of gammazero/bogglesolver: package solver (solver/solver.go) and  *)
(* the word search it runs over an X by Y grid of letters.                 *)
(*                                                                         *)
(* Strings are sequences of byte codes (97 = 'a', 113 = 'q', 117 = 'u',    *)
(* 65 = 'A', 123 = '{').  Cell indices are 0-based as in the source; the   *)
(* byte of cell sq of a board is board[sq + 1].                            *)
(*                                                                         *)
(* The dictionary is a radixtree.Tree, modelled by the set of keys it      *)
(* holds; a radixtree.Stepper is modelled by the key prefix it has         *)
(* consumed.  A *radixtree.Tree pointer is <<>> when nil and <<keys>>      *)
(* otherwise.                                                              *)
(*                                                                         *)
(* Also modelled: the Trie of solver/trie.go (SpecTrie), the loop of the    *)
(* command-line program, runBoard (SpecCli), uniqueSortedWords on its own  *)
(* (SpecSort), Solve on grids of arbitrary bytes (SpecBytes), and the      *)
(* Trie-based solver, NewSolver and BoggleSolver.Solve (SpecBoggle).       *)
(***************************************************************************)
EXTENDS Integers, Sequences, FiniteSets, TLC

\* ------------------------------------------------------------------ bounds

\* Largest board (columns * rows) a solver is built for.
MaxCells == 4
\* Largest number of lines of a words file.
MaxSource == 2
\* Largest board side of the direct calls of calculateAdjacency.
MaxDim == 4
\* Largest board of the runs with two concurrent Solve calls.
MaxCellsConc == 3
\* Largest number of lines the user types before the console input ends.
MaxLines == 3
\* Longest slice handed to uniqueSortedWords directly.
MaxWords == 3

\* ------------------------------------------------- bytes of the source text

\* 'a' in `int(word[0]) < 'a'`
ChA == 97
\* 'q' in `int(word[0]) == 'q'` and `key[0] == 'q'`
ChQ == 113
\* 'u' in `int(word[1]) != 'u'`
ChU == 117
\* minLen, the third argument of loadWords in New
MinLength == 3
\* capacity of the package-level slice adj
AdjCap == 8

\* ----------------------------------------------------------- input domains

\* Lines a words file may hold:
\*   "aaa" "aaaa" "aa" "qua" "qaa" "Aaa" "aqa"
Vocabulary ==
    { <<97, 97, 97>>, <<97, 97, 97, 97>>, <<97, 97>>, <<113, 117, 97>>,
      <<113, 97, 97>>, <<65, 97, 97>>, <<97, 113, 97>> }

\* Lines of the words files of the runs that follow loadWords line by line:
\* the above and "{aa", "0aa", "quaa", "".
LoadVocabulary ==
    Vocabulary \cup { <<123, 97, 97>>, <<48, 97, 97>>, <<113, 117, 97, 97>>, <<>> }

\* Bytes a grid string may hold: 'A' (folded to 'a' by Solve) and 'q'.
GridBytes == {65, 113}

\* Strings handed to uniqueSortedWords directly: "", "a", "b", "ab".
SortStrings == { <<>>, <<97>>, <<98>>, <<97, 98>> }

\* All sequences over S of length n.
SeqsOfLen(S, n) == [1..n -> S]

\* All sequences over S of length lo..hi.
SeqsUpTo(S, lo, hi) == UNION { SeqsOfLen(S, n) : n \in lo..hi }

\* A words file: missing (os.Open fails), a .gz file gzip.NewReader refuses,
\* unreadable half way (scanner.Err() is set after the loop), or a readable
\* sequence of lines.
Files ==
    { [kind |-> "missing", lines |-> <<>>], [kind |-> "badgzip", lines |-> <<>>],
      [kind |-> "readerr", lines |-> <<>>] }
    \cup { [kind |-> "ok", lines |-> l] : l \in SeqsUpTo(Vocabulary, 0, MaxSource) }

\* Words files of the runs that follow loadWords line by line.
LoadFiles ==
    { [kind |-> "missing", lines |-> <<>>], [kind |-> "badgzip", lines |-> <<>>] }
    \cup { [kind |-> k, lines |-> l] :
             k \in {"ok", "readerr"}, l \in SeqsUpTo(LoadVocabulary, 0, MaxSource) }

\* -------------------------------------------------------------- radixtree

NilTree == <<>>

TreeOf(keys) == <<keys>>

Keys(rt) == rt[1]

\* radixtree.New()
NewTree == TreeOf({})

PutReplace(rt, word) == TreeOf({word})

\* tree.Put(word, nil)
Put(rt, word) == TreeOf(Keys(rt) \cup {word})

\* rt.Len()
TreeLen(rt) == Cardinality(Keys(rt))

IsPrefix(p, w) == Len(p) <= Len(w) /\ SubSeq(w, 1, Len(p)) = p

\* rt.NewStepper(): a stepper at the root, no byte consumed.
NewStepper == <<>>

\* Whether stepper.Next(radix) advances: some key continues with that byte.
CanStep(rt, stepper, radix) ==
    \E k \in Keys(rt) : IsPrefix(Append(stepper, radix), k)

\* The stepper after stepper.Next(radix): advanced when the byte continues a
\* key, left where it is otherwise.
StepperNext(rt, stepper, radix) ==
    IF CanStep(rt, stepper, radix) THEN Append(stepper, radix) ELSE stepper

\* stepper.Item() != nil: the bytes consumed are a key of the tree.
HasItem(rt, stepper) == stepper \in Keys(rt)

\* stepper.Item().Key()
ItemKey(stepper) == stepper

\* ------------------------------------------------------------- loadWords

BadLengthNoMin(word, maxLen, minLen) == Len(word) > maxLen

\* `len(word) > maxLen || len(word) < minLen`
BadLength(word, maxLen, minLen) == Len(word) > maxLen \/ Len(word) < minLen

SkipFirstNever(word) == FALSE

\* `int(word[0]) < 'a'`
SkipFirst(word) == word[1] < ChA

SkipQNever(word) == FALSE

\* `int(word[0]) == 'q'` with `int(word[1]) != 'u'`
SkipQ(word) == word[1] = ChQ /\ word[2] # ChU

\* `word = "q" + word[2:]` for a word that starts with q
CollapseQu(word) ==
    IF word[1] = ChQ THEN <<ChQ>> \o SubSeq(word, 3, Len(word)) ELSE word

\* Whether a pass of the loop `for scanner.Scan()` reaches tree.Put: none of
\* the three `continue` is taken.
ReachesPut(word, maxLen, minLen) ==
    /\ ~BadLength(word, maxLen, minLen)
    /\ ~SkipFirst(word)
    /\ ~SkipQ(word)

\* One pass of the loop `for scanner.Scan()`: the tree after the line `word`.
ScanWord(rt, word, maxLen, minLen) ==
    IF ReachesPut(word, maxLen, minLen) THEN Put(rt, CollapseQu(word)) ELSE rt

RECURSIVE ScanAll(_, _, _, _)
ScanAll(rt, lines, maxLen, minLen) ==
    IF lines = <<>> THEN rt
    ELSE ScanAll(ScanWord(rt, Head(lines), maxLen, minLen), Tail(lines),
                 maxLen, minLen)

\* loadWords(filePath, maxLen, minLen): the tree, or nil with an error.
loadWords(file, maxLen, minLen) ==
    IF file.kind = "missing"
    THEN [rt |-> NilTree, err |-> "solver: error opening words file"]
    ELSE IF file.kind = "badgzip"
    THEN [rt |-> NilTree, err |-> "solver: error unzipping words file"]
    ELSE IF file.kind = "readerr"
    THEN [rt |-> NilTree, err |-> "solver: error reading words file"]
    ELSE [rt |-> ScanAll(NewTree, file.lines, maxLen, minLen), err |-> ""]

\* ------------------------------------------------------------------- New

\* Solver{}
ZeroSolver == [cols |-> 0, rows |-> 0, rt |-> NilTree]

NewPartial(xlen, ylen, file) ==
    IF xlen < 1 \/ ylen < 1
    THEN [s |-> ZeroSolver, err |-> "invalid board dimensions"]
    ELSE LET r == loadWords(file, xlen * ylen, MinLength)
         IN  IF r.err # ""
             THEN [s |-> [cols |-> xlen, rows |-> ylen, rt |-> NewTree], err |-> r.err]
             ELSE [s |-> [cols |-> xlen, rows |-> ylen, rt |-> r.rt], err |-> ""]

\* New(xlen, ylen, wordsPath): the solver value and the error returned.
New(xlen, ylen, file) ==
    IF xlen < 1 \/ ylen < 1
    THEN [s |-> ZeroSolver, err |-> "invalid board dimensions"]
    ELSE LET r == loadWords(file, xlen * ylen, MinLength)
         IN  IF r.err # ""
             THEN [s |-> ZeroSolver, err |-> r.err]
             ELSE [s |-> [cols |-> xlen, rows |-> ylen, rt |-> r.rt], err |-> ""]

\* s.BoardSize()
BoardSize(s) == s.cols * s.rows

\* s.WordCount()
WordCount(s) == TreeLen(s.rt)

\* ---------------------------------------------------- calculateAdjacency

calculateAdjacencyWrap(xlim, ylim, sq) ==
    LET y == sq \div xlim
        x == sq - (y * xlim)
        above == sq - xlim
        below == sq + xlim
    IN  (IF y - 1 >= 0
         THEN (IF x - 1 >= 0 THEN <<above - 1>> ELSE <<>>)
              \o <<above>>
              \o <<above + 1>>
         ELSE <<>>)
        \o (IF x - 1 >= 0 THEN <<sq - 1>> ELSE <<>>)
        \o (IF x + 1 < xlim THEN <<sq + 1>> ELSE <<>>)
        \o (IF y + 1 < ylim
            THEN (IF x - 1 >= 0 THEN <<below - 1>> ELSE <<>>)
                 \o <<below>>
                 \o (IF x + 1 < xlim THEN <<below + 1>> ELSE <<>>)
            ELSE <<>>)

calculateAdjacencyNoAbove(xlim, ylim, sq) ==
    LET y == sq \div xlim
        x == sq - (y * xlim)
        below == sq + xlim
    IN  (IF x - 1 >= 0 THEN <<sq - 1>> ELSE <<>>)
        \o (IF x + 1 < xlim THEN <<sq + 1>> ELSE <<>>)
        \o (IF y + 1 < ylim
            THEN (IF x - 1 >= 0 THEN <<below - 1>> ELSE <<>>)
                 \o <<below>>
                 \o (IF x + 1 < xlim THEN <<below + 1>> ELSE <<>>)
            ELSE <<>>)

\* The values calculateAdjacency appends to adj, in order.
calculateAdjacency(xlim, ylim, sq) ==
    LET y == sq \div xlim
        x == sq - (y * xlim)
        above == sq - xlim
        below == sq + xlim
    IN  (IF y - 1 >= 0
         THEN (IF x - 1 >= 0 THEN <<above - 1>> ELSE <<>>)
              \o <<above>>
              \o (IF x + 1 < xlim THEN <<above + 1>> ELSE <<>>)
         ELSE <<>>)
        \o (IF x - 1 >= 0 THEN <<sq - 1>> ELSE <<>>)
        \o (IF x + 1 < xlim THEN <<sq + 1>> ELSE <<>>)
        \o (IF y + 1 < ylim
            THEN (IF x - 1 >= 0 THEN <<below - 1>> ELSE <<>>)
                 \o <<below>>
                 \o (IF x + 1 < xlim THEN <<below + 1>> ELSE <<>>)
            ELSE <<>>)

\* `var adj = make([]int, 0, 8)`: the backing array and the length.
NewAdj == [buf |-> [i \in 1..AdjCap |-> 0], len |-> 0]

\* The package-level adj after `adj = adj[:0]` and the appends of nbrs: the
\* backing array keeps what lies beyond the new length.
AdjAfter(a, nbrs) ==
    [buf |-> [i \in 1..AdjCap |-> IF i <= Len(nbrs) THEN nbrs[i] ELSE a.buf[i]],
     len |-> Len(nbrs)]

SliceOfCap(a, n) == [i \in 1..AdjCap |-> a.buf[i]]

\* What a slice of length n returned by calculateAdjacency reads now: it
\* shares the backing array of adj.
SliceOf(a, n) == [i \in 1..n |-> a.buf[i]]

\* ----------------------------------------------------- uniqueSortedWords

\* w1 < w2 in byte order (Go's string comparison).
RECURSIVE StrLess(_, _)
StrLess(w1, w2) ==
    IF w2 = <<>> THEN FALSE
    ELSE IF w1 = <<>> THEN TRUE
    ELSE IF Head(w1) # Head(w2) THEN Head(w1) < Head(w2)
    ELSE StrLess(Tail(w1), Tail(w2))

\* sort.Sort(sort.StringSlice(words)): insertion of w into a sorted list.
RECURSIVE SortedInsert(_, _)
SortedInsert(ws, w) ==
    IF ws = <<>> THEN <<w>>
    ELSE IF StrLess(w, Head(ws)) THEN <<w>> \o ws
    ELSE <<Head(ws)>> \o SortedInsert(Tail(ws), w)

RECURSIVE SortWords(_)
SortWords(ws) ==
    IF ws = <<>> THEN <<>>
    ELSE SortedInsert(SortWords(Tail(ws)), Head(ws))

\* The loop `for _, w := range words` with `if w != prev`.
RECURSIVE Dedup(_, _)
Dedup(ws, prev) ==
    IF ws = <<>> THEN <<>>
    ELSE IF Head(ws) # prev THEN <<Head(ws)>> \o Dedup(Tail(ws), Head(ws))
    ELSE Dedup(Tail(ws), prev)

uniqueSortedWordsKeepDup(words) == SortWords(words)

uniqueSortedWords(words) ==
    IF Len(words) = 0 THEN words ELSE Dedup(SortWords(words), <<>>)

\* ------------------------------------------------------------------ Solve

\* strings.ToLower, the path for a string of ASCII bytes only.
ToLowerASCII(grid) ==
    [i \in 1..Len(grid) |-> IF grid[i] >= 65 /\ grid[i] <= 90
                            THEN grid[i] + 32 ELSE grid[i]]

\* strings.ToLower, the path for a string with a byte of 128 or more
\* (strings.Map with unicode.ToLower), for the bytes the grids here hold:
\* an ASCII byte is folded; 196 176 is U+0130, whose lowercase is "i", one
\* byte; any other byte of 128 or more is invalid UTF-8 where it stands and
\* is written as U+FFFD, three bytes (239 191 189).
RECURSIVE MapLower(_)
MapLower(grid) ==
    IF grid = <<>> THEN <<>>
    ELSE IF Head(grid) < 128
    THEN ToLowerASCII(<<Head(grid)>>) \o MapLower(Tail(grid))
    ELSE IF Head(grid) = 196 /\ Len(grid) >= 2 /\ grid[2] = 176
    THEN <<105>> \o MapLower(Tail(Tail(grid)))
    ELSE <<239, 191, 189>> \o MapLower(Tail(grid))

\* strings.ToLower(grid): the result can be shorter or longer than grid.
ToLower(grid) ==
    IF \A i \in 1..Len(grid) : grid[i] < 128
    THEN ToLowerASCII(grid) ELSE MapLower(grid)

DictMissingOrEmpty(s) == s.rt = NilTree \/ Keys(s.rt) = {}

\* `s.rt == nil`
DictMissing(s) == s.rt = NilTree

GridLengthErrorSwapped(n, size) ==
    IF n = size THEN ""
    ELSE IF n < size THEN "too many letters for board"
    ELSE "not enough letters for board"

\* The error of the check `len(grid) != s.BoardSize()`, "" when it passes.
GridLengthError(n, size) ==
    IF n = size THEN ""
    ELSE IF n < size THEN "not enough letters for board"
    ELSE "too many letters for board"

VisitedNever(seen, curSq) == FALSE

VisitedLast(seen, curSq) == seen[Len(seen)] = curSq

\* The loop `for i := range seen` that skips a cell already on the path.
Visited(seen, curSq) == \E i \in 1..Len(seen) : seen[i] = curSq

\* `"qu"+key[1:]` for a key that starts with q, the key otherwise.
Rehydrate(key) ==
    IF key[1] = ChQ THEN <<ChQ, ChU>> \o Tail(key) ELSE key

\* qNode{parentSquare, parentTrie, seen}
QNode(sq, stepper, seen) ==
    [parentSquare |-> sq, parentTrie |-> stepper, seen |-> seen]

\* No node dequeued yet.
NoNode == QNode(0, <<>>, <<>>)

PopBack(q) == [node |-> q[Len(q)], rest |-> SubSeq(q, 1, Len(q) - 1)]

\* q.PopFront(): the node taken and the queue that is left.
PopFront(q) == [node |-> Head(q), rest |-> Tail(q)]

\* The node pushed for starting cell initSq: the result of stepper.Next is
\* not looked at.
InitialNode(rt, board, initSq) ==
    QNode(initSq, StepperNext(rt, NewStepper, board[initSq + 1]), <<initSq>>)

\* Whether board[curSq] is inside the string; outside it the access panics.
InBoard(board, curSq) == curSq >= 0 /\ curSq < Len(board)

ExtendFromLast(rt, board, qn, acc, curSq) ==
    IF acc.panic \/ Visited(qn.seen, curSq) THEN acc
    ELSE IF ~InBoard(board, curSq) THEN [acc EXCEPT !.panic = TRUE]
    ELSE IF ~CanStep(rt, qn.parentTrie, board[curSq + 1]) THEN acc
    ELSE LET curNode == StepperNext(rt, qn.parentTrie, board[curSq + 1])
             newSeen == Append(IF acc.q = <<>> THEN qn.seen
                               ELSE acc.q[Len(acc.q)].seen, curSq)
         IN  [acc EXCEPT
                !.q = Append(@, QNode(curSq, curNode, newSeen)),
                !.words = IF HasItem(rt, curNode)
                          THEN Append(@, Rehydrate(ItemKey(curNode)))
                          ELSE @]

ExtendStopAtWord(rt, board, qn, acc, curSq) ==
    IF acc.panic \/ Visited(qn.seen, curSq) THEN acc
    ELSE IF ~InBoard(board, curSq) THEN [acc EXCEPT !.panic = TRUE]
    ELSE IF ~CanStep(rt, qn.parentTrie, board[curSq + 1]) THEN acc
    ELSE LET curNode == StepperNext(rt, qn.parentTrie, board[curSq + 1])
             newSeen == Append(qn.seen, curSq)
         IN  IF HasItem(rt, curNode)
             THEN [acc EXCEPT !.words = Append(@, Rehydrate(ItemKey(curNode)))]
             ELSE [acc EXCEPT !.q = Append(@, QNode(curSq, curNode, newSeen))]

\* One pass of the loop at AdjLoop for neighbor curSq: the queue and the words
\* after it, or the panic of board[curSq] (no pass runs after a panic).
Extend(rt, board, qn, acc, curSq) ==
    IF acc.panic \/ Visited(qn.seen, curSq) THEN acc
    ELSE IF ~InBoard(board, curSq) THEN [acc EXCEPT !.panic = TRUE]
    ELSE IF ~CanStep(rt, qn.parentTrie, board[curSq + 1]) THEN acc
    ELSE LET curNode == StepperNext(rt, qn.parentTrie, board[curSq + 1])
             newSeen == Append(qn.seen, curSq)
         IN  [acc EXCEPT
                !.q = Append(@, QNode(curSq, curNode, newSeen)),
                !.words = IF HasItem(rt, curNode)
                          THEN Append(@, Rehydrate(ItemKey(curNode)))
                          ELSE @]

\* The loop `for _, curSq := range sqAdj`.
RECURSIVE AdjLoop(_, _, _, _, _)
AdjLoop(rt, board, qn, acc, sqAdj) ==
    IF sqAdj = <<>> THEN acc
    ELSE AdjLoop(rt, board, qn, Extend(rt, board, qn, acc, Head(sqAdj)),
                 Tail(sqAdj))

\* ------------------------------------------------------------------- Trie

\* Words handed to the Trie: "a" "ab" "b" "Ab" "a{" "{" "".
TrieWords ==
    { <<97>>, <<97, 98>>, <<98>>, <<65, 98>>, <<97, 123>>, <<123>>, <<>> }

\* A Trie is the set of its nodes, each named by the child indices that lead
\* to it from the root, and the set of the nodes whose isWord is set.
\* NewTrie(): the root alone.
NewTrie == [nodes |-> {<<>>}, words |-> {}]

\* `int(c - 'a')`
TrieIndex(c) == c - ChA

\* Whether children[index] is inside the array [26]*Trie; outside it the
\* access panics.
InChildren(index) == index >= 0 /\ index < 26

\* The loop of Insert from node `at` over the runes `rest`, and
\* `t.isWord = true` after it.  A rune outside a-z stops the call with a
\* panic; the nodes made before it stay.
RECURSIVE InsertFrom(_, _, _)
InsertFrom(t, at, rest) ==
    IF rest = <<>>
    THEN [trie |-> [t EXCEPT !.words = @ \cup {at}], result |-> "ok"]
    ELSE LET index == TrieIndex(Head(rest))
             next == Append(at, index)
         IN  IF ~InChildren(index) THEN [trie |-> t, result |-> "panic"]
             ELSE InsertFrom([t EXCEPT !.nodes = @ \cup {next}], next, Tail(rest))

\* t.Insert(word), from the root.
Insert(t, word) == InsertFrom(t, <<>>, ToLower(word))

\* The loop of ContainsWord from node `at`, and `return t.isWord`.
RECURSIVE ContainsFrom(_, _, _)
ContainsFrom(t, at, rest) ==
    IF rest = <<>> THEN (IF at \in t.words THEN "true" ELSE "false")
    ELSE LET index == TrieIndex(Head(rest))
             next == Append(at, index)
         IN  IF ~InChildren(index) THEN "panic"
             ELSE IF next \notin t.nodes THEN "false"
             ELSE ContainsFrom(t, next, Tail(rest))

\* t.ContainsWord(word), from the root.
ContainsWord(t, word) == ContainsFrom(t, <<>>, ToLower(word))

\* t.Child(c) at node `at`: the child node, nil, or a panic.  The rune is
\* used as it is given.
Child(t, at, c) ==
    IF ~InChildren(TrieIndex(c)) THEN [kind |-> "panic", at |-> <<>>]
    ELSE IF Append(at, TrieIndex(c)) \notin t.nodes THEN [kind |-> "nil", at |-> <<>>]
    ELSE [kind |-> "node", at |-> Append(at, TrieIndex(c))]

\* t.ContainsLetter(c) at node `at`.
ContainsLetter(t, at, c) == Child(t, at, c).kind # "nil"

\* t.IsWord() at node `at`.
IsWord(t, at) == at \in t.words

\* A chain of Child calls from node `at` along the runes `rest`, as TestPath
\* makes it: it ends at a node, or at the first nil or panic.
RECURSIVE ChildPath(_, _, _)
ChildPath(t, at, rest) ==
    IF rest = <<>> THEN [kind |-> "node", at |-> at]
    ELSE LET child == Child(t, at, Head(rest))
         IN  IF child.kind # "node" THEN child
             ELSE ChildPath(t, child.at, Tail(rest))

\* --------------------------------------------------- the command-line loop

\* Lines the user may type at the prompt: "", "*", "1", "A", "qA", "AAAAAA".
UserLines ==
    { <<>>, <<42>>, <<49>>, <<65>>, <<113, 65>>, <<65, 65, 65, 65, 65, 65>> }

\* What the user types before the input ends (ReadString then fails).
UserInputs == SeqsUpTo(UserLines, 0, MaxLines)

\* Grids randomGrid(size) may return.
RandomGrids(size) == SeqsOfLen({97, 113}, size)

\* The loop `for _, c := range input` of readGridFromUser.
ValidInput(input) == \A i \in 1..Len(input) : input[i] >= 97 /\ input[i] <= 122

\* The loop of readGridFromUser with `grid` collected so far and `lines` still
\* to come from the console; rnd is what randomGrid returns if it is called.
RECURSIVE ReadLoop(_, _, _, _)
ReadLoop(boardSize, grid, lines, rnd) ==
    IF lines = <<>> THEN [grid |-> <<>>, err |-> "error reading input"]
    ELSE LET input == Head(lines)
             lower == ToLower(input)
             more == IF ValidInput(lower) THEN grid \o lower ELSE grid
         IN  IF Len(input) = 0 THEN [grid |-> <<>>, err |-> ""]
             ELSE IF input = <<42>> THEN [grid |-> rnd, err |-> ""]
             ELSE IF Len(more) >= boardSize
             THEN [grid |-> SubSeq(more, 1, boardSize), err |-> ""]
             ELSE ReadLoop(boardSize, more, Tail(lines), rnd)

\* readGridFromUser(boardSize)
readGridFromUser(boardSize, lines, rnd) == ReadLoop(boardSize, <<>>, lines, rnd)

\* ------------------------------------- the Trie-based solver (part_001)

\* []rune(s): a byte below 128 is its own code point, the three bytes of
\* U+FFFD are 65533, and so is any byte that is not valid UTF-8.
RECURSIVE Runes(_)
Runes(s) ==
    IF s = <<>> THEN <<>>
    ELSE IF Head(s) < 128 THEN <<Head(s)>> \o Runes(Tail(s))
    ELSE IF Len(s) >= 3 /\ SubSeq(s, 1, 3) = <<239, 191, 189>>
    THEN <<65533>> \o Runes(SubSeq(s, 4, Len(s)))
    ELSE <<65533>> \o Runes(Tail(s))

\* NewTrie() of the map-based Trie, as the set of the words it holds.
NewMapTrie == {}

\* t.Insert(word): the runes of the lowercased word, the last node marked.
MapInsert(t, word) == t \cup {Runes(ToLower(word))}

\* A nil *Trie.
NilNode == [kind |-> "nil", at |-> <<>>]

\* The *Trie reached from the root along path.
NodeAt(path) == [kind |-> "node", at |-> path]

\* node.Child(c) for a node that is not nil: `t.children[c]`, nil when the
\* map has no such rune.
MapChild(t, node, c) ==
    IF \E w \in t : IsPrefix(Append(node.at, c), w)
    THEN NodeAt(Append(node.at, c)) ELSE NilNode

\* node.IsWord()
MapIsWord(t, node) == node.at \in t

\* The loop `for scanner.Scan()` of the Trie-based loadWords: the same three
\* `continue`, then root.Insert(word) and wordCount++.
RECURSIVE BoggleScanAll(_, _, _, _)
BoggleScanAll(acc, lines, maxLen, minLen) ==
    IF lines = <<>> THEN acc
    ELSE LET word == Head(lines)
             next == IF  /\ ~(Len(word) > maxLen \/ Len(word) < minLen)
                         /\ ~(word[1] < ChA)
                         /\ ~(word[1] = ChQ /\ word[2] # ChU)
                     THEN [trie |-> MapInsert(acc.trie,
                                      IF word[1] = ChQ
                                      THEN <<ChQ>> \o SubSeq(word, 3, Len(word))
                                      ELSE word),
                           count |-> acc.count + 1]
                     ELSE acc
         IN  BoggleScanAll(next, Tail(lines), maxLen, minLen)

\* loadWords(wordsFile, maxLen, minLen) of the Trie-based solver: the root,
\* the words under it, the count, or nil with an error.
BoggleLoadWords(file, maxLen, minLen) ==
    IF file.kind = "missing"
    THEN [root |-> NilNode, trie |-> {}, count |-> 0,
          err |-> "solver: error opening words file"]
    ELSE IF file.kind = "badgzip"
    THEN [root |-> NilNode, trie |-> {}, count |-> 0,
          err |-> "solver: error unzipping words file"]
    ELSE IF file.kind = "readerr"
    THEN [root |-> NilNode, trie |-> {}, count |-> 0,
          err |-> "solver: error reading words file"]
    ELSE LET r == BoggleScanAll([trie |-> NewMapTrie, count |-> 0],
                                file.lines, maxLen, minLen)
         IN  [root |-> NodeAt(<<>>), trie |-> r.trie, count |-> r.count,
              err |-> ""]

\* calculateAdjacency(xlim, ylim, sq, adj) of part_001: the slice returned,
\* as the backing array of adj after `adj = adj[0:0]` and the appends, and
\* its length.
calculateAdjacencyBuf(xlim, ylim, sq, a) ==
    LET y == sq \div xlim
        x == sq - (y * xlim)
        above == sq - xlim
        below == sq + xlim
        nbrs == (IF y - 1 >= 0
                 THEN (IF x - 1 >= 0 THEN <<above - 1>> ELSE <<>>)
                      \o <<above>>
                      \o (IF x + 1 < xlim THEN <<above + 1>> ELSE <<>>)
                 ELSE <<>>)
                \o (IF x - 1 >= 0 THEN <<sq - 1>> ELSE <<>>)
                \o (IF x + 1 < xlim THEN <<sq + 1>> ELSE <<>>)
                \o (IF y + 1 < ylim
                    THEN (IF x - 1 >= 0 THEN <<below - 1>> ELSE <<>>)
                         \o <<below>>
                         \o (IF x + 1 < xlim THEN <<below + 1>> ELSE <<>>)
                    ELSE <<>>)
    IN  [buf |-> [i \in 1..AdjCap |-> IF i <= Len(nbrs) THEN nbrs[i]
                                      ELSE a.buf[i]],
         len |-> Len(nbrs)]

\* A nil [][]int.
NilMatrix == [nil |-> TRUE, heap |-> <<>>, entries |-> <<>>]

\* A matrix built with one buffer made before the loop and handed to every
\* calculateAdjacency call.
RECURSIVE MatrixFromShared(_, _, _, _)
MatrixFromShared(xlim, ylim, sq, m) ==
    IF ~(sq < xlim * ylim) THEN m
    ELSE LET r == calculateAdjacencyBuf(xlim, ylim, sq,
                                        [buf |-> m.heap[1], len |-> 0])
         IN  MatrixFromShared(xlim, ylim, sq + 1,
                 [m EXCEPT !.heap = <<r.buf>>,
                           !.entries[sq + 1] = [buf |-> 1, len |-> r.len]])

calculateAdjacencyMatrixShared(xlim, ylim) ==
    MatrixFromShared(xlim, ylim, 0,
        [nil |-> FALSE, heap |-> <<NewAdj.buf>>,
         entries |-> [i \in 1..(ylim * xlim) |-> [buf |-> 0, len |-> 0]]])

\* The loop of calculateAdjacencyMatrix from cell sq on: each pass makes a
\* buffer of capacity 8 and stores the slice calculateAdjacency returns on it.
\* heap holds the buffers, an entry names its buffer and its length.
RECURSIVE MatrixFrom(_, _, _, _)
MatrixFrom(xlim, ylim, sq, m) ==
    IF ~(sq < xlim * ylim) THEN m
    ELSE LET r == calculateAdjacencyBuf(xlim, ylim, sq, NewAdj)
         IN  MatrixFrom(xlim, ylim, sq + 1,
                 [m EXCEPT !.heap = Append(@, r.buf),
                           !.entries[sq + 1] =
                               [buf |-> Len(m.heap) + 1, len |-> r.len]])

\* calculateAdjacencyMatrix(xlim, ylim): `make([][]int, ylim*xlim)`, then the
\* loop.
calculateAdjacencyMatrix(xlim, ylim) ==
    MatrixFrom(xlim, ylim, 0,
        [nil |-> FALSE, heap |-> <<>>,
         entries |-> [i \in 1..(ylim * xlim) |-> [buf |-> 0, len |-> 0]]])

\* s.adjacency[sq]: what the slice of the entry reads.
MatrixEntry(m, sq) ==
    SliceOf([buf |-> m.heap[m.entries[sq + 1].buf], len |-> m.entries[sq + 1].len],
            m.entries[sq + 1].len)

\* A nil *BoggleSolver.
NilBoggle ==
    [nil |-> TRUE, cols |-> 0, rows |-> 0, boardSize |-> 0, root |-> NilNode,
     trie |-> {}, wordCount |-> 0, adjacency |-> NilMatrix]

\* NewSolver(xlen, ylen, wordsFile, preCalcAdjacency): the solver pointed to
\* and the error returned.
NewSolver(xlen, ylen, file, preCalcAdjacency) ==
    IF xlen < 1 \/ ylen < 1
    THEN [s |-> NilBoggle, err |-> "invalid board dimensions"]
    ELSE LET r == BoggleLoadWords(file, xlen * ylen, 3)
         IN  IF r.err # ""
             THEN [s |-> NilBoggle, err |-> r.err]
             ELSE [s |-> [nil |-> FALSE, cols |-> xlen, rows |-> ylen,
                          boardSize |-> xlen * ylen, root |-> r.root,
                          trie |-> r.trie, wordCount |-> r.count,
                          adjacency |-> IF preCalcAdjacency
                                        THEN calculateAdjacencyMatrix(xlen, ylen)
                                        ELSE NilMatrix],
                   err |-> ""]

\* One pass of `for a := 0; a < adjCount; a++` for neighbor curSq.  The call
\* parentTrie.Child(c) on a nil parentTrie reads a field through a nil
\* pointer: a runtime panic.
BoggleExtend(s, board, qn, acc, curSq) ==
    IF acc.panic \/ Visited(qn.seen, curSq) THEN acc
    ELSE IF ~InBoard(board, curSq) THEN [acc EXCEPT !.panic = TRUE]
    ELSE IF qn.parentTrie.kind = "nil" THEN [acc EXCEPT !.panic = TRUE]
    ELSE LET c == board[curSq + 1]
             curNode == MapChild(s.trie, qn.parentTrie, c)
             cstr == Append(qn.prefix, c)
             newSeen == Append(qn.seen, curSq)
         IN  IF curNode.kind = "nil" THEN acc
             ELSE [acc EXCEPT
                     !.q = Append(@, [parentSquare |-> curSq, prefix |-> cstr,
                                      parentTrie |-> curNode, seen |-> newSeen]),
                     !.words = IF MapIsWord(s.trie, curNode)
                               THEN Append(@, IF cstr[1] = ChQ
                                              THEN <<ChQ, ChU>> \o Tail(cstr)
                                              ELSE cstr)
                               ELSE @]

RECURSIVE BoggleAdjLoop(_, _, _, _, _)
BoggleAdjLoop(s, board, qn, acc, sqAdj) ==
    IF sqAdj = <<>> THEN acc
    ELSE BoggleAdjLoop(s, board, qn,
                       BoggleExtend(s, board, qn, acc, Head(sqAdj)), Tail(sqAdj))

\* The loop `for !q.Empty()`: pop the front, take its neighbors from the
\* matrix or compute them into the call's own buffer adj, extend.
RECURSIVE BoggleDrain(_, _, _)
BoggleDrain(s, board, acc) ==
    IF acc.panic \/ acc.q = <<>> THEN acc
    ELSE LET qn == Head(acc.q)
             computed == calculateAdjacencyBuf(s.cols, s.rows, qn.parentSquare,
                                               acc.adj)
             sqAdj == IF s.adjacency.nil THEN SliceOf(computed, computed.len)
                      ELSE MatrixEntry(s.adjacency, qn.parentSquare)
             r == BoggleAdjLoop(s, board, qn,
                                [acc EXCEPT !.q = Tail(@)], sqAdj)
         IN  BoggleDrain(s, board,
                         [r EXCEPT !.adj = IF s.adjacency.nil THEN computed
                                           ELSE @])

\* The loop `for initSq, c := range board` from initSq on: the starting node
\* holds trie.Child(c), nil or not.
RECURSIVE BoggleStarts(_, _, _, _)
BoggleStarts(s, board, initSq, acc) ==
    IF acc.panic \/ ~(initSq < Len(board)) THEN acc
    ELSE LET c == board[initSq + 1]
             qn == [parentSquare |-> initSq, prefix |-> <<c>>,
                    parentTrie |-> MapChild(s.trie, s.root, c),
                    seen |-> <<initSq>>]
         IN  BoggleStarts(s, board, initSq + 1,
                          BoggleDrain(s, board, [acc EXCEPT !.q = Append(@, qn)]))

\* s.Solve(grid) of the Trie-based solver, for a solver that is not nil: the
\* words and the error returned, or a runtime panic.
BoggleSolve(s, grid) ==
    IF s.root.kind = "nil"
    THEN [out |-> <<>>, err |-> "failed to read words file", panic |-> FALSE]
    ELSE IF Len(grid) # s.boardSize
    THEN [out |-> <<>>, panic |-> FALSE,
          err |-> IF Len(grid) < s.boardSize
                  THEN "not enough letters for board"
                  ELSE "too many letters for board"]
    ELSE LET board == Runes(ToLower(grid))
             r == BoggleStarts(s, board, 0,
                     [q |-> <<>>, words |-> <<>>, panic |-> FALSE, adj |-> NewAdj])
         IN  IF r.panic THEN [out |-> <<>>, err |-> "", panic |-> TRUE]
             ELSE [out |-> uniqueSortedWords(r.words), err |-> "", panic |-> FALSE]

\* ------------------------------------------------------------------ state

\* Goroutines that call Solve.
Procs == {1, 2}

VARIABLES
    solver,   \* the Solver value New returned
    newErr,   \* the error New returned, "" for nil
    adj,      \* the package-level slice adj: backing array and length
    st,       \* per goroutine: the Solve call it is in
    prior,    \* per goroutine: whether it completed a Solve call before
    load,     \* the loadWords call New is in, while it runs
    probe,    \* the last direct call of calculateAdjacency
    trie,     \* the Trie of the Trie tests
    tlog,     \* the last call on the Trie and the words Insert stored
    cli,      \* the runBoard call of the command-line program
    usw,      \* the uniqueSortedWords call of the sort test
    bs        \* the NewSolver and Solve calls of the Trie-based solver

vars == <<solver, newErr, adj, st, prior, load, probe, trie, tlog, cli, usw, bs>>

\* No direct call of uniqueSortedWords.
SortOff == [pc |-> "off", arg |-> <<>>, words |-> <<>>, out |-> <<>>]

\* No Trie-based solver.
BoggleOff ==
    [pc |-> "off", xlen |-> 0, ylen |-> 0, file |-> [kind |-> "missing", lines |-> <<>>],
     preCalc |-> FALSE, s |-> NilBoggle, err |-> "", grid |-> <<>>,
     res |-> [out |-> <<>>, err |-> "", panic |-> FALSE]]

\* Grid strings handed to the Trie-based Solve: one letter short, exact, one
\* letter long.
BoggleGrids(s) == SeqsUpTo(GridBytes, s.boardSize - 1, s.boardSize + 1)

\* loadWords is not running.
LoadOff ==
    [pc |-> "off", file |-> [kind |-> "ok", lines |-> <<>>], xlen |-> 0,
     ylen |-> 0, pos |-> 0, rt |-> NilTree, inserted |-> <<>>, err |-> ""]

\* calculateAdjacency was not called directly.
NoProbe == [xlim |-> 0, ylim |-> 0, called |-> FALSE, sq |-> 0, len |-> 0]

\* No call on the Trie yet.
NoTrieCall == [op |-> "none", word |-> <<>>, result |-> "", inserted |-> {}]

\* runBoard is not running.
CliOff ==
    [pc |-> "off", grid |-> <<>>, ever |-> TRUE, interactive |-> FALSE,
     solves |-> 0, exit |-> ""]

\* A goroutine outside Solve.
IdleCall ==
    [pc |-> "idle", grid |-> <<>>, board |-> <<>>, initSq |-> 0, q |-> <<>>,
     words |-> <<>>, qn |-> NoNode, sqAdjLen |-> 0, out |-> <<>>, err |-> ""]

\* Bytes of the grids of the runs with arbitrary bytes: 'a', the two bytes
\* of U+0130, and 255.
WideBytes == {97, 196, 176, 255}

\* Grids of exactly columns*rows bytes, of any byte values.
ByteGrids(s) == SeqsOfLen(WideBytes, BoardSize(s))

\* Board dimensions handed to New, invalid ones included.
Dims == { d \in (0..MaxCells) \X (0..MaxCells) : d[1] * d[2] <= MaxCells }

\* Grid strings handed to Solve: one letter short, exact, one letter long.
Grids(s) ==
    IF s.rt = NilTree THEN SeqsUpTo(GridBytes, 0, 2)
    ELSE SeqsUpTo(GridBytes, BoardSize(s) - 1, BoardSize(s) + 1)

Init ==
    /\ \E d \in Dims, f \in Files :
         LET r == New(d[1], d[2], f)
         IN  solver = r.s /\ newErr = r.err
    /\ adj = NewAdj
    /\ st = [p \in Procs |-> IdleCall]
    /\ prior = [p \in Procs |-> FALSE]
    /\ load = LoadOff
    /\ probe = NoProbe
    /\ trie = NewTrie
    /\ tlog = NoTrieCall
    /\ cli = CliOff
    /\ usw = SortOff
    /\ bs = BoggleOff

\* The call s.Solve(grid) up to the first pass of `for initSq`: it returned
\* an error, or it has its board and an empty queue.
SolveEntry(s, grid) ==
    IF DictMissing(s)
    THEN [IdleCall EXCEPT !.pc = "done", !.grid = grid,
                          !.err = "failed to read words file"]
    ELSE IF GridLengthError(Len(grid), BoardSize(s)) # ""
    THEN [IdleCall EXCEPT !.pc = "done", !.grid = grid,
            !.err = GridLengthError(Len(grid), BoardSize(s))]
    ELSE [IdleCall EXCEPT !.pc = "outer", !.grid = grid, !.board = ToLower(grid)]

\* Solve, from its entry to the first pass of `for initSq`.
SolveBegin(p, grid) ==
    /\ st[p].pc = "idle"
    /\ st' = [st EXCEPT ![p] = SolveEntry(solver, grid)]
    /\ UNCHANGED <<solver, newErr, adj, prior, load, probe, trie, tlog, cli, usw, bs>>

\* One test of `initSq < len(board)`: push the starting node, or return.
SolveStart(p) ==
    /\ st[p].pc = "outer"
    /\ st' = [st EXCEPT ![p] =
         IF st[p].initSq < Len(st[p].board)
         THEN [@ EXCEPT !.pc = "inner",
                 !.q = Append(@, InitialNode(solver.rt, st[p].board, st[p].initSq))]
         ELSE [@ EXCEPT !.pc = "done", !.out = uniqueSortedWords(st[p].words)]]
    /\ UNCHANGED <<solver, newErr, adj, prior, load, probe, trie, tlog, cli, usw, bs>>

\* One test of `q.Len() != 0`: pop the front node and compute its neighbors
\* into adj, or move to the next starting cell.
SolvePop(p) ==
    /\ st[p].pc = "inner"
    /\ IF Len(st[p].q) # 0
       THEN LET qn == PopFront(st[p].q).node
                nbrs == calculateAdjacency(solver.cols, solver.rows, qn.parentSquare)
            IN  /\ adj' = AdjAfter(adj, nbrs)
                /\ st' = [st EXCEPT ![p] =
                     [@ EXCEPT !.pc = "expand", !.q = PopFront(@).rest, !.qn = qn,
                               !.sqAdjLen = adj'.len]]
       ELSE /\ st' = [st EXCEPT ![p] =
                     [@ EXCEPT !.pc = "outer", !.initSq = @ + 1]]
            /\ adj' = adj
    /\ UNCHANGED <<solver, newErr, prior, load, probe, trie, tlog, cli, usw, bs>>

\* The loop over sqAdj for the popped node: the slice is read from the
\* backing array of adj as it is now.  An index outside board ends the call
\* with a runtime panic.
SolveExpand(p) ==
    /\ st[p].pc = "expand"
    /\ LET r == AdjLoop(solver.rt, st[p].board, st[p].qn,
                        [q |-> st[p].q, words |-> st[p].words, panic |-> FALSE],
                        SliceOf(adj, st[p].sqAdjLen))
       IN  st' = [st EXCEPT ![p] =
                    [@ EXCEPT !.pc = IF r.panic THEN "panic" ELSE "inner",
                              !.q = r.q, !.words = r.words]]
    /\ UNCHANGED <<solver, newErr, adj, prior, load, probe, trie, tlog, cli, usw, bs>>

\* The caller takes the result; the goroutine may call Solve again.
SolveReturn(p) ==
    /\ st[p].pc = "done"
    /\ st' = [st EXCEPT ![p] = IdleCall]
    /\ prior' = [prior EXCEPT ![p] = TRUE]
    /\ UNCHANGED <<solver, newErr, adj, load, probe, trie, tlog, cli, usw, bs>>

\* One goroutine, one Solve call.
Next ==
    \/ \E grid \in Grids(solver) : SolveBegin(1, grid)
    \/ SolveStart(1)
    \/ SolvePop(1)
    \/ SolveExpand(1)

Spec == Init /\ [][Next]_vars

\* One Solve call on a grid of the right length and of any bytes; the call
\* keeps running until it returns (or the program ends).
NextBytes ==
    \/ \E grid \in ByteGrids(solver) : SolveBegin(1, grid)
    \/ SolveStart(1)
    \/ SolvePop(1)
    \/ SolveExpand(1)

SpecBytes == Init /\ [][NextBytes]_vars /\ WF_vars(NextBytes)

\* One goroutine calling Solve on the same solver again and again.
NextRepeat ==
    \/ \E grid \in Grids(solver) : SolveBegin(1, grid)
    \/ SolveStart(1)
    \/ SolvePop(1)
    \/ SolveExpand(1)
    \/ SolveReturn(1)

SpecRepeat == Init /\ [][NextRepeat]_vars

\* Two goroutines, each in one Solve call on the same solver.
InitConc == Init /\ BoardSize(solver) <= MaxCellsConc

NextConc ==
    \E p \in Procs :
        \/ \E grid \in Grids(solver) : SolveBegin(p, grid)
        \/ SolveStart(p)
        \/ SolvePop(p)
        \/ SolveExpand(p)

SpecConc == InitConc /\ [][NextConc]_vars

\* --------------------------------------------- New, followed line by line

\* New was just called with valid dimensions and is about to open the file.
InitLoad ==
    /\ solver = ZeroSolver
    /\ newErr = ""
    /\ adj = NewAdj
    /\ st = [p \in Procs |-> IdleCall]
    /\ prior = [p \in Procs |-> FALSE]
    /\ probe = NoProbe
    /\ trie = NewTrie
    /\ tlog = NoTrieCall
    /\ cli = CliOff
    /\ usw = SortOff
    /\ bs = BoggleOff
    /\ \E d \in Dims, f \in LoadFiles :
         /\ d[1] >= 1 /\ d[2] >= 1
         /\ load = [LoadOff EXCEPT !.pc = "open", !.file = f,
                                   !.xlen = d[1], !.ylen = d[2]]

\* loadWords up to `tree := radixtree.New()`: the file opens and decodes, or
\* loadWords returns the error and New returns it with Solver{}.
LoadOpen ==
    /\ load.pc = "open"
    /\ load' = IF load.file.kind = "missing"
               THEN [load EXCEPT !.pc = "done",
                                 !.err = "solver: error opening words file"]
               ELSE IF load.file.kind = "badgzip"
               THEN [load EXCEPT !.pc = "done",
                                 !.err = "solver: error unzipping words file"]
               ELSE [load EXCEPT !.pc = "scan", !.rt = NewTree]
    /\ newErr' = load'.err
    /\ UNCHANGED <<solver, adj, st, prior, probe, trie, tlog, cli, usw, bs>>

\* One pass of `for scanner.Scan()`.  `inserted` records the lines given to
\* tree.Put, as read from the file.
LoadScan ==
    /\ load.pc = "scan"
    /\ load.pos < Len(load.file.lines)
    /\ LET word == load.file.lines[load.pos + 1]
           maxLen == load.xlen * load.ylen
       IN  load' = [load EXCEPT
                      !.pos = @ + 1,
                      !.rt = ScanWord(@, word, maxLen, MinLength),
                      !.inserted = IF ReachesPut(word, maxLen, MinLength)
                                   THEN Append(@, word) ELSE @]
    /\ UNCHANGED <<solver, newErr, adj, st, prior, probe, trie, tlog, cli, usw, bs>>

\* The scanner is exhausted: loadWords returns and New builds the Solver.
LoadFinish ==
    /\ load.pc = "scan"
    /\ load.pos = Len(load.file.lines)
    /\ IF load.file.kind = "readerr"
       THEN /\ load' = [load EXCEPT !.pc = "done", !.rt = NilTree,
                          !.err = "solver: error reading words file"]
            /\ solver' = ZeroSolver
       ELSE /\ load' = [load EXCEPT !.pc = "done"]
            /\ solver' = [cols |-> load.xlen, rows |-> load.ylen, rt |-> load.rt]
    /\ newErr' = load'.err
    /\ UNCHANGED <<adj, st, prior, probe, trie, tlog, cli, usw, bs>>

NextLoad ==
    \/ LoadOpen
    \/ LoadScan
    \/ LoadFinish

SpecLoad == InitLoad /\ [][NextLoad]_vars

\* ------------------------------------------ calculateAdjacency, called alone

\* No solver: the caller passes the dimensions, as TestCalcAdjacency does.
InitAdj ==
    /\ solver = ZeroSolver
    /\ newErr = ""
    /\ adj = NewAdj
    /\ st = [p \in Procs |-> IdleCall]
    /\ prior = [p \in Procs |-> FALSE]
    /\ load = LoadOff
    /\ trie = NewTrie
    /\ tlog = NoTrieCall
    /\ cli = CliOff
    /\ usw = SortOff
    /\ bs = BoggleOff
    /\ \E xlim \in 1..MaxDim, ylim \in 1..MaxDim :
         probe = [NoProbe EXCEPT !.xlim = xlim, !.ylim = ylim]

\* calculateAdjacency(xlim, ylim, sq) for a cell of the board; the result is
\* the slice adj[0:len].
CalcAdjacency(sq) ==
    /\ probe.xlim >= 1
    /\ sq < probe.xlim * probe.ylim
    /\ adj' = AdjAfter(adj, calculateAdjacency(probe.xlim, probe.ylim, sq))
    /\ probe' = [probe EXCEPT !.called = TRUE, !.sq = sq, !.len = adj'.len]
    /\ UNCHANGED <<solver, newErr, st, prior, load, trie, tlog, cli, usw, bs>>

NextAdj == \E sq \in 0..(MaxDim * MaxDim - 1) : CalcAdjacency(sq)

SpecAdj == InitAdj /\ [][NextAdj]_vars

\* --------------------------------------------- uniqueSortedWords, alone

\* A slice of strings about to be handed to uniqueSortedWords, no solver.
InitSort ==
    /\ solver = ZeroSolver
    /\ newErr = ""
    /\ adj = NewAdj
    /\ st = [p \in Procs |-> IdleCall]
    /\ prior = [p \in Procs |-> FALSE]
    /\ load = LoadOff
    /\ probe = NoProbe
    /\ trie = NewTrie
    /\ tlog = NoTrieCall
    /\ cli = CliOff
    /\ \E ws \in SeqsUpTo(SortStrings, 0, MaxWords) :
         usw = [pc |-> "call", arg |-> ws, words |-> ws, out |-> <<>>]
    /\ bs = BoggleOff

\* unique := uniqueSortedWords(words): the caller's slice is sorted in place
\* (not for the empty slice, returned as it is) and the result is returned.
UniqueSortedWordsCall ==
    /\ usw.pc = "call"
    /\ usw' = [usw EXCEPT !.pc = "done",
                          !.words = IF Len(@) = 0 THEN @ ELSE SortWords(@),
                          !.out = uniqueSortedWords(usw.words)]
    /\ UNCHANGED <<solver, newErr, adj, st, prior, load, probe, trie, tlog, cli, bs>>

NextSort == UniqueSortedWordsCall

SpecSort == InitSort /\ [][NextSort]_vars

\* ------------------------------------------------ the Trie-based solver

\* solver, err := NewSolver(xlen, ylen, wordsFile, preCalcAdjacency)
InitBoggle ==
    /\ solver = ZeroSolver
    /\ newErr = ""
    /\ adj = NewAdj
    /\ st = [p \in Procs |-> IdleCall]
    /\ prior = [p \in Procs |-> FALSE]
    /\ load = LoadOff
    /\ probe = NoProbe
    /\ trie = NewTrie
    /\ tlog = NoTrieCall
    /\ cli = CliOff
    /\ usw = SortOff
    /\ \E d \in Dims, f \in Files, pre \in BOOLEAN :
         LET r == NewSolver(d[1], d[2], f, pre)
         IN  bs = [BoggleOff EXCEPT !.pc = "built", !.xlen = d[1], !.ylen = d[2],
                                    !.file = f, !.preCalc = pre, !.s = r.s,
                                    !.err = r.err]

\* solver.Solve(grid), called when NewSolver returned no error.
BoggleSolveCall(grid) ==
    /\ bs.pc = "built"
    /\ bs.err = ""
    /\ bs' = [bs EXCEPT !.pc = "solved", !.grid = grid,
                        !.res = BoggleSolve(bs.s, grid)]
    /\ UNCHANGED <<solver, newErr, adj, st, prior, load, probe, trie, tlog, cli, usw>>

NextBoggle == \E grid \in BoggleGrids(bs.s) : BoggleSolveCall(grid)

SpecBoggle == InitBoggle /\ [][NextBoggle]_vars

\* ------------------------------------------------------- the Trie, alone

\* root := NewTrie(), no solver.
InitTrie ==
    /\ solver = ZeroSolver
    /\ newErr = ""
    /\ adj = NewAdj
    /\ st = [p \in Procs |-> IdleCall]
    /\ prior = [p \in Procs |-> FALSE]
    /\ load = LoadOff
    /\ probe = NoProbe
    /\ trie = NewTrie
    /\ tlog = NoTrieCall
    /\ cli = CliOff
    /\ usw = SortOff
    /\ bs = BoggleOff

\* root.Insert(word).  A panic ends the program.
TrieInsert(word) ==
    /\ tlog.result # "panic"
    /\ LET r == Insert(trie, word)
       IN  /\ trie' = r.trie
           /\ tlog' = [op |-> "Insert", word |-> word, result |-> r.result,
                       inserted |-> IF r.result = "ok"
                                    THEN tlog.inserted \cup {word}
                                    ELSE tlog.inserted]
    /\ UNCHANGED <<solver, newErr, adj, st, prior, load, probe, cli, usw, bs>>

\* root.ContainsWord(word)
TrieContainsWord(word) ==
    /\ tlog.result # "panic"
    /\ tlog' = [tlog EXCEPT !.op = "ContainsWord", !.word = word,
                            !.result = ContainsWord(trie, word)]
    /\ UNCHANGED <<solver, newErr, adj, st, prior, load, probe, trie, cli, usw, bs>>

\* root.Child(c1).Child(c2)... along the runes of word, stopping at nil.
TrieChildPath(word) ==
    /\ tlog.result # "panic"
    /\ word # <<>>
    /\ LET r == ChildPath(trie, <<>>, word)
       IN  tlog' = [tlog EXCEPT !.op = "Child", !.word = word,
                      !.result = IF r.kind # "node" THEN r.kind
                                 ELSE IF IsWord(trie, r.at) THEN "word"
                                 ELSE "node"]
    /\ UNCHANGED <<solver, newErr, adj, st, prior, load, probe, trie, cli, usw, bs>>

NextTrie ==
    \E word \in TrieWords :
        \/ TrieInsert(word)
        \/ TrieContainsWord(word)
        \/ TrieChildPath(word)

SpecTrie == InitTrie /\ [][NextTrie]_vars

\* ------------------------------------------------------------- runBoard

\* runBoard(grid, wordsFile, xlen, ylen, quietLevel, random) up to the loop:
\* New has run (solver, newErr); a New error is returned at once.
RunBoard(gridFlag, random, rnd) ==
    /\ cli.pc = "off"
    /\ cli' = IF newErr # ""
              THEN [CliOff EXCEPT !.pc = "exit", !.exit = "error"]
              ELSE [CliOff EXCEPT !.pc = "loop",
                      !.grid = IF random THEN rnd ELSE gridFlag,
                      !.interactive = (gridFlag = <<>> /\ ~random),
                      !.solves = 0]
    /\ UNCHANGED <<solver, newErr, adj, st, prior, load, probe, trie, tlog, usw, bs>>

\* One pass of `for ever` up to the call sol.Solve(grid): the loop ends, or a
\* grid is read from the user when grid is "", or ever is cleared; then Solve
\* is entered.  `solves` counts the Solve calls on the grid since it was given.
CliIterate(lines, rnd) ==
    /\ cli.pc = "loop"
    /\ IF ~cli.ever
       THEN /\ cli' = [cli EXCEPT !.pc = "exit", !.exit = "loop ended"]
            /\ st' = st
       ELSE IF cli.grid = <<>>
       THEN LET r == readGridFromUser(BoardSize(solver), lines, rnd)
            IN  IF r.err # ""
                THEN /\ cli' = [cli EXCEPT !.pc = "exit", !.exit = "error"]
                     /\ st' = st
                ELSE IF r.grid = <<>>
                THEN /\ cli' = [cli EXCEPT !.pc = "exit", !.exit = "empty line"]
                     /\ st' = st
                ELSE /\ cli' = [cli EXCEPT !.pc = "solving", !.grid = r.grid,
                                           !.solves = 1]
                     /\ st' = [st EXCEPT ![1] = SolveEntry(solver, r.grid)]
       ELSE /\ cli' = [cli EXCEPT !.pc = "solving", !.ever = FALSE,
                                  !.solves = @ + 1]
            /\ st' = [st EXCEPT ![1] = SolveEntry(solver, cli.grid)]
    /\ UNCHANGED <<solver, newErr, adj, prior, load, probe, trie, tlog, usw, bs>>

\* sol.Solve returned: an error is returned; with no word the loop continues
\* with grid as it is; otherwise the words are shown and grid is cleared.
CliSolved ==
    /\ cli.pc = "solving"
    /\ st[1].pc = "done"
    /\ cli' = IF st[1].err # ""
              THEN [cli EXCEPT !.pc = "exit", !.exit = "error"]
              ELSE IF Len(st[1].out) = 0
              THEN [cli EXCEPT !.pc = "loop"]
              ELSE [cli EXCEPT !.pc = "loop", !.grid = <<>>]
    /\ st' = [st EXCEPT ![1] = IdleCall]
    /\ UNCHANGED <<solver, newErr, adj, prior, load, probe, trie, tlog, usw, bs>>

\* The console is read only when the loop runs with grid "", and randomGrid
\* is called only for -rand or a line "*".
NextCli ==
    \/ \E gridFlag \in {<<>>} \cup Grids(solver), random \in BOOLEAN :
         \E rnd \in (IF random THEN RandomGrids(BoardSize(solver)) ELSE {<<>>}) :
            RunBoard(gridFlag, random, rnd)
    \/ \E lines \in (IF cli.ever /\ cli.grid = <<>> THEN UserInputs ELSE {<<>>}) :
         \E rnd \in (IF \E i \in 1..Len(lines) : lines[i] = <<42>>
                     THEN RandomGrids(BoardSize(solver)) ELSE {<<>>}) :
            CliIterate(lines, rnd)
    \/ SolveStart(1)
    \/ SolvePop(1)
    \/ SolveExpand(1)
    \/ CliSolved

SpecCli == Init /\ [][NextCli]_vars

\* ================================================================= claims
\* The definitions below state the claims; they are written from the claims'
\* words (grid geometry, byte order, sets of words), not from the code.

Abs(n) == IF n < 0 THEN -n ELSE n

Cells(cols, rows) == 0..(cols * rows - 1)

CellRow(cols, c) == c \div cols

CellCol(cols, c) == c % cols

\* Two different cells that touch by a side or a corner.
AdjacentCells(cols, a, b) ==
    /\ a # b
    /\ Abs(CellRow(cols, a) - CellRow(cols, b)) <= 1
    /\ Abs(CellCol(cols, a) - CellCol(cols, b)) <= 1

\* Simple paths of n cells: no cell twice, each cell adjacent to the one
\* before it.
RECURSIVE PathsOfLen(_, _, _)
PathsOfLen(cols, rows, n) ==
    IF n = 1 THEN { <<c>> : c \in Cells(cols, rows) }
    ELSE { Append(pc[1], pc[2]) :
             pc \in { x \in PathsOfLen(cols, rows, n - 1) \X Cells(cols, rows) :
                        /\ \A i \in 1..Len(x[1]) : x[1][i] # x[2]
                        /\ AdjacentCells(cols, x[1][Len(x[1])], x[2]) } }

SimplePaths(cols, rows) ==
    UNION { PathsOfLen(cols, rows, n) : n \in 1..(cols * rows) }

\* The letters of the cells of a path, in order.
Letters(board, path) == [i \in 1..Len(path) |-> board[path[i] + 1]]

\* Dictionary keys some simple path of the board spells letter by letter.
Spellable(s, board) ==
    { k \in Keys(s.rt) :
        \E path \in SimplePaths(s.cols, s.rows) : Letters(board, path) = k }

\* A dictionary key as the word list has it: a leading q written "qu".
OutputWord(k) == IF k[1] = 113 THEN <<113, 117>> \o Tail(k) ELSE k

\* Letters with every q read as "qu".
RECURSIVE ReadQu(_)
ReadQu(w) ==
    IF w = <<>> THEN <<>>
    ELSE IF Head(w) = 113 THEN <<113, 117>> \o ReadQu(Tail(w))
    ELSE <<Head(w)>> \o ReadQu(Tail(w))

Range(f) == { f[i] : i \in DOMAIN f }

\* w1 before w2 in lexicographic byte order.
ByteLess(w1, w2) ==
    \/ Len(w1) < Len(w2) /\ SubSeq(w2, 1, Len(w1)) = w1
    \/ \E i \in 1..(IF Len(w1) < Len(w2) THEN Len(w1) ELSE Len(w2)) :
         /\ SubSeq(w1, 1, i - 1) = SubSeq(w2, 1, i - 1)
         /\ w1[i] < w2[i]

StrictlyIncreasing(ws) ==
    \A i \in 1..(Len(ws) - 1) : ByteLess(ws[i], ws[i + 1])

\* The words of a set in increasing byte order.
RECURSIVE InOrder(_)
InOrder(S) ==
    IF S = {} THEN <<>>
    ELSE LET least == CHOOSE w \in S : \A v \in S \ {w} : ByteLess(w, v)
         IN  <<least>> \o InOrder(S \ {least})

\* The outcome a Solve call on `grid` has when nothing else runs and nothing
\* ran before it.
OutcomeAlone(s, grid) ==
    IF s.rt = NilTree
    THEN [out |-> <<>>, err |-> "failed to read words file"]
    ELSE IF Len(grid) < s.cols * s.rows
    THEN [out |-> <<>>, err |-> "not enough letters for board"]
    ELSE IF Len(grid) > s.cols * s.rows
    THEN [out |-> <<>>, err |-> "too many letters for board"]
    ELSE [out |-> InOrder({ OutputWord(k) : k \in Spellable(s, ToLower(grid)) }),
          err |-> ""]

Outcome(c) == [out |-> c.out, err |-> c.err]

\* The neighbors of sq: above-left, above, above-right, left, right,
\* below-left, below, below-right, those outside the grid left out.
Directions ==
    << <<-1, -1>>, <<-1, 0>>, <<-1, 1>>, <<0, -1>>, <<0, 1>>,
       <<1, -1>>, <<1, 0>>, <<1, 1>> >>

NeighborsInOrder(cols, rows, sq) ==
    LET r == CellRow(cols, sq)
        c == CellCol(cols, sq)
        Inside(d) == /\ r + d[1] >= 0 /\ r + d[1] < rows
                     /\ c + d[2] >= 0 /\ c + d[2] < cols
        kept == SelectSeq(Directions, Inside)
    IN  [i \in 1..Len(kept) |-> (r + kept[i][1]) * cols + (c + kept[i][2])]

OnBorderRow(rows, cols, sq) == CellRow(cols, sq) \in {0, rows - 1}

OnBorderCol(cols, sq) == CellCol(cols, sq) \in {0, cols - 1}

CornerCell(cols, rows, sq) == OnBorderRow(rows, cols, sq) /\ OnBorderCol(cols, sq)

EdgeCell(cols, rows, sq) ==
    /\ OnBorderRow(rows, cols, sq) \/ OnBorderCol(cols, sq)
    /\ ~CornerCell(cols, rows, sq)

InteriorCell(cols, rows, sq) ==
    ~OnBorderRow(rows, cols, sq) /\ ~OnBorderCol(cols, sq)

\* The neighbor count the claim gives a cell by its kind.
KindCount(cols, rows, sq) ==
    IF CornerCell(cols, rows, sq) THEN 3
    ELSE IF EdgeCell(cols, rows, sq) THEN 5
    ELSE 8

C2_NoSharedScratch ==
    \A p \in Procs :
        /\ st[p].pc = "expand"
           => SliceOf(adj, st[p].sqAdjLen)
              = NeighborsInOrder(solver.cols, solver.rows, st[p].qn.parentSquare)
        /\ st[p].pc = "done"
           => Outcome(st[p]) = OutcomeAlone(solver, st[p].grid)

\* ---------------------------------------------------------------------- C3
\* C3: a result returned without error is strictly increasing in byte order:
\* no duplicate, no inversion.
C3_ResultStrictlyIncreasing ==
    \A p \in Procs :
        st[p].pc = "done" /\ st[p].err = "" => StrictlyIncreasing(st[p].out)

\* A result of two words or more, one of them found along several paths.
C3_Witness ==
    /\ st[1].pc = "done" /\ st[1].err = ""
    /\ Len(st[1].out) >= 2
    /\ Len(st[1].words) > Len(st[1].out)

\* ---------------------------------------------------------------------- C4
\* C4: on a solver that has a dictionary, a grid shorter than columns*rows
\* gets "not enough letters", a longer one "too many letters", and only a grid
\* of exactly columns*rows letters is searched; a call that failed returned
\* no words and set up no board, queue, node or neighbor slice.
C4_LengthValidation ==
    \A p \in Procs :
        st[p].pc # "idle" /\ solver.rt # NilTree
        => LET n == Len(st[p].grid)
               size == solver.cols * solver.rows
               untouched == /\ st[p].pc = "done"
                            /\ st[p].out = <<>> /\ st[p].words = <<>>
                            /\ st[p].board = <<>> /\ st[p].q = <<>>
                            /\ st[p].qn = NoNode /\ st[p].sqAdjLen = 0
           IN  /\ n < size => st[p].err = "not enough letters for board" /\ untouched
               /\ n > size => st[p].err = "too many letters for board" /\ untouched
               /\ n = size => st[p].err = "" /\ st[p].board # <<>>

\* A call refused for a grid one letter too long.
C4_Witness ==
    /\ st[1].pc = "done" /\ solver.rt # NilTree
    /\ Len(st[1].grid) > solver.cols * solver.rows
    /\ st[1].err = "too many letters for board"

\* ---------------------------------------------------------------------- C5
\* C5: every returned word is the letters of the cells of some simple path,
\* in order, with every q cell read as "qu", wherever it is in the word.
C5_EveryQReadAsQu ==
    \A p \in Procs :
        st[p].pc = "done" /\ st[p].err = ""
        => \A w \in Range(st[p].out) :
             \E path \in SimplePaths(solver.cols, solver.rows) :
                w = ReadQu(Letters(st[p].board, path))

\* ---------------------------------------------------------------------- C6
\* C6 as claimed: a solver whose dictionary is absent or empty fails every
\* Solve call with the dictionary-unavailable error.
C6_AbsentOrEmptyFails ==
    \A p \in Procs :
        st[p].pc = "done" /\ (solver.rt = NilTree \/ Keys(solver.rt) = {})
        => st[p].err = "failed to read words file"

\* C6 as amended: a solver whose dictionary is absent fails every Solve call
\* with the dictionary-unavailable error and returns no words; a dictionary
\* that was built but holds no word is not an error: the length check
\* applies and a grid of the right length gets an empty word list.
C6_AbsentFails ==
    \A p \in Procs :
        st[p].pc # "idle"
        => /\ solver.rt = NilTree
              => /\ st[p].pc = "done"
                 /\ st[p].err = "failed to read words file"
                 /\ st[p].out = <<>>
           /\ solver.rt # NilTree
              => /\ st[p].err # "failed to read words file"
                 /\ (/\ Keys(solver.rt) = {}
                     /\ st[p].pc = "done"
                     /\ Len(st[p].grid) = solver.cols * solver.rows)
                    => (st[p].err = "" /\ st[p].out = <<>>)

\* A call on the solver value a failed New returned.
C6_Witness ==
    /\ st[1].pc = "done" /\ solver = ZeroSolver
    /\ st[1].err = "failed to read words file"

\* ---------------------------------------------------------------------- C7
\* C7: whatever Solve calls ran on the solver before, a finished call has the
\* outcome (error, or word sequence) that the dictionary and the grid alone
\* determine.
C7_OutcomeOfGridAlone ==
    \A p \in Procs :
        st[p].pc = "done" => Outcome(st[p]) = OutcomeAlone(solver, st[p].grid)

\* A later call on the same solver that found words.
C7_Witness ==
    /\ st[1].pc = "done" /\ prior[1]
    /\ st[1].err = "" /\ st[1].out # <<>>

\* ---------------------------------------------------------------------- C8
\* C8: calculateAdjacency returns the neighbors in the order above-left,
\* above, above-right, left, right, below-left, below, below-right: exactly
\* the cells of the grid at row and column distance at most 1 from sq, never
\* sq, none twice, none across a row boundary.
C8_AdjacencyExact ==
    probe.called
    => LET got == SliceOf(adj, probe.len)
       IN  /\ got = NeighborsInOrder(probe.xlim, probe.ylim, probe.sq)
           /\ Range(got) = { c \in Cells(probe.xlim, probe.ylim) :
                               AdjacentCells(probe.xlim, probe.sq, c) }
           /\ \A i, j \in 1..Len(got) : i # j => got[i] # got[j]
           /\ probe.sq \notin Range(got)

\* An interior cell, with all eight neighbors.
C8_Witness == probe.called /\ probe.len = 8

\* ---------------------------------------------------------------------- C9
\* C9 as claimed: for every board of at least one column and one row, a
\* corner cell has 3 neighbors, an edge cell 5, an interior cell 8.
C9_CountByKind ==
    probe.called => probe.len = KindCount(probe.xlim, probe.ylim, probe.sq)

\* C9 as amended: the counts 3, 5 and 8 hold on every board of at least two
\* columns and two rows; on a board of one row or one column a cell has at
\* most 2 neighbors.
C9_CountByKindTwoByTwo ==
    probe.called
    => IF probe.xlim >= 2 /\ probe.ylim >= 2
       THEN probe.len = KindCount(probe.xlim, probe.ylim, probe.sq)
       ELSE probe.len <= 2

\* An edge cell of a board of at least two rows and columns.
C9_Witness ==
    /\ probe.called /\ probe.xlim >= 2 /\ probe.ylim >= 2
    /\ EdgeCell(probe.xlim, probe.ylim, probe.sq)
    /\ probe.len = 5

\* --------------------------------------------------------------------- C10
\* C10 as claimed: no line whose first byte is not a lowercase letter a-z
\* is ever given to tree.Put.
C10_OnlyLowercaseFirst ==
    \A i \in 1..Len(load.inserted) :
        load.inserted[i][1] >= 97 /\ load.inserted[i][1] <= 122

\* C10 as amended: no line whose first byte is below 'a' (an uppercase
\* letter, a digit, punctuation below 'a') is ever given to tree.Put; a line
\* of accepted length whose first byte is above 'z' is not skipped.
C10_NoFirstByteBelowA ==
    /\ \A i \in 1..Len(load.inserted) : load.inserted[i][1] >= 97
    /\ \A i \in 1..load.pos :
         LET word == load.file.lines[i]
         IN  /\ Len(word) >= 3 /\ Len(word) <= load.xlen * load.ylen
             /\ word[1] > 122
             => \E j \in 1..Len(load.inserted) : load.inserted[j] = word

\* The scan passed a capitalised line and a digit line, and inserted a word.
C10_Witness ==
    /\ load.pc = "done"
    /\ \E i \in 1..load.pos : load.file.lines[i] = <<65, 97, 97>>
    /\ \E i \in 1..load.pos : load.file.lines[i] = <<97, 97, 97>>
    /\ load.inserted = << <<97, 97, 97>> >>

\* --------------------------------------------------------------------- C11
\* A line of the source of accepted length: 3 to columns*rows bytes.
AcceptedLength(word, size) == Len(word) >= 3 /\ Len(word) <= size

\* C11: a line that starts with q and does not go on with u is never given
\* to tree.Put and leaves no key; a line "qu..." of accepted length is
\* inserted as "q" and the rest; so at every point of the scan the tree holds
\* a key k that starts with q if and only if a line read so far is an
\* accepted "qu" followed by the rest of k.
C11_QuCollapsed ==
    load.rt # NilTree
    => LET size == load.xlen * load.ylen
           read == { load.file.lines[i] : i \in 1..load.pos }
       IN  /\ \A i \in 1..Len(load.inserted) :
                load.inserted[i][1] = 113 => load.inserted[i][2] = 117
           /\ \A k \in Keys(load.rt) :
                k[1] = 113
                => \E w \in read : /\ AcceptedLength(w, size)
                                   /\ w = <<113, 117>> \o Tail(k)
           /\ \A w \in read :
                AcceptedLength(w, size) /\ w[1] = 113 /\ w[2] = 117
                => <<113>> \o Tail(Tail(w)) \in Keys(load.rt)

\* The scan passed "qaa" and "quaa": the tree holds the key "qaa", for "quaa".
C11_Witness ==
    /\ load.pc = "done" /\ load.err = ""
    /\ load.file.lines = << <<113, 97, 97>>, <<113, 117, 97, 97>> >>
    /\ load.inserted = << <<113, 117, 97, 97>> >>
    /\ Keys(load.rt) = { <<113, 97, 97>> }

\* --------------------------------------------------------------------- C12
\* C12: every word of a result is, as returned (a leading q written "qu"),
\* at least 3 and at most columns*rows bytes long.
C12_WordLengthBounds ==
    \A p \in Procs :
        st[p].pc = "done" /\ st[p].err = ""
        => \A w \in Range(st[p].out) :
             Len(w) >= 3 /\ Len(w) <= solver.cols * solver.rows

\* "qua" returned on a board of 3 cells: a key of 2 bytes, found along a path
\* of 2 cells, returned with 3 bytes.
C12_Witness ==
    /\ st[1].pc = "done" /\ st[1].err = ""
    /\ solver.cols * solver.rows = 3
    /\ <<113, 97>> \in Keys(solver.rt)
    /\ <<113, 117, 97>> \in Range(st[1].out)

\* --------------------------------------------------------------------- C13
\* C13: New returns an error exactly when it returns a solver value without
\* dictionary; every Solve call on the solver value of a failed New, the
\* first and any later one, for any grid, ends at once with the
\* dictionary-unavailable error and no word list.
C13_AllOrNothing ==
    /\ newErr # "" <=> solver.rt = NilTree
    /\ newErr # ""
       => /\ solver = ZeroSolver
          /\ \A p \in Procs :
               st[p].pc # "idle"
               => /\ st[p].pc = "done"
                  /\ st[p].err = "failed to read words file"
                  /\ st[p].out = <<>> /\ st[p].words = <<>> /\ st[p].q = <<>>

\* New failed on an unreadable file; a second Solve call, on a grid as long
\* as the board of the solver value, was refused.
C13_Witness ==
    /\ newErr = "solver: error reading words file"
    /\ prior[1] /\ st[1].pc = "done"
    /\ Len(st[1].grid) = BoardSize(solver)
    /\ st[1].err = "failed to read words file"

\* --------------------------------------------------------------------- C15
\* A line that passes the three filters of the scan.
PassesFilters(word, size) ==
    /\ AcceptedLength(word, size)
    /\ word[1] >= 97
    /\ word[1] = 113 => word[2] = 117

\* C15: WordCount() of the solver New built is the number of distinct lines
\* of the source that pass the length, first-character and q filters.
C15_WordCountDistinct ==
    load.pc = "done" /\ load.err = ""
    => WordCount(solver)
       = Cardinality({ w \in Range(load.file.lines) :
                         PassesFilters(w, load.xlen * load.ylen) })

\* A source that lists one accepted word twice: counted once.
C15_Witness ==
    /\ load.pc = "done" /\ load.err = ""
    /\ Len(load.file.lines) = 2
    /\ load.file.lines[1] = load.file.lines[2]
    /\ Len(load.inserted) = 2
    /\ WordCount(solver) = 1

\* --------------------------------------------------------------------- C14
\* Words compared as Insert and ContainsWord compare them, without regard to
\* case.
SameWord(v, w) == ToLower(v) = ToLower(w)

\* C14: after any Insert calls, ContainsWord(w) returns true if w was
\* inserted and false if not (words compared without regard to case): false
\* for a word never inserted, false for a proper prefix of an inserted word
\* that was not inserted itself although the Child descent along it reaches a
\* node; and every word Insert stored stays contained.
C14_ContainsExactlyInserted ==
    /\ tlog.op = "ContainsWord"
       => tlog.result = IF \E v \in tlog.inserted : SameWord(v, tlog.word)
                        THEN "true" ELSE "false"
    /\ \A v \in tlog.inserted : ContainsWord(trie, v) = "true"
    /\ \A v \in tlog.inserted : \A n \in 0..Len(v) :
         LET pre == SubSeq(ToLower(v), 1, n)
         IN  /\ ChildPath(trie, <<>>, pre).kind = "node"
             /\ (\A u \in tlog.inserted : ~SameWord(u, pre))
                => ContainsWord(trie, pre) = "false"

\* --------------------------------------------------------------------- C16
\* C16: no grid is handed to Solve more than once; in interactive mode
\* runBoard returns only after the user entered an empty line or after an
\* error, so after every solved grid it prompts again; with -grid or -rand
\* it returns after its one Solve call.
C16_PromptAfterEverySolve ==
    /\ cli.solves <= 1
    /\ cli.pc = "exit" /\ cli.interactive
       => cli.exit \in {"empty line", "error"}
    /\ cli.pc = "exit" /\ ~cli.interactive /\ newErr = ""
       => cli.solves = 1

\* --------------------------------------------------------------------- C17
\* C17: no state is in the frontier for a starting cell whose letter begins
\* no dictionary word, and the dictionary position of every state of the
\* frontier is the one reached from the root by the letters of its visited
\* cells, in order.
C17_StartCellSkipped ==
    \A p \in Procs :
        st[p].pc \in {"inner", "expand"}
        => \A i \in 1..Len(st[p].q) :
             LET node == st[p].q[i]
             IN  /\ Len(node.seen) = 1
                    => \E k \in Keys(solver.rt) :
                         k[1] = st[p].board[node.seen[1] + 1]
                 /\ node.parentTrie = Letters(st[p].board, node.seen)

\* --------------------------------------------------------------------- C18
\* C18: the visited sequence of every state of the frontier starts at the
\* current starting cell, ends at the state's cell, holds cells of the board,
\* none twice, each a neighbor of the one before it, and is at most
\* columns*rows long.
C18_FrontierSimplePaths ==
    \A p \in Procs :
        st[p].pc \in {"inner", "expand"}
        => \A i \in 1..Len(st[p].q) :
             LET seen == st[p].q[i].seen
             IN  /\ Len(seen) >= 1 /\ Len(seen) <= solver.cols * solver.rows
                 /\ seen[1] = st[p].initSq
                 /\ seen[Len(seen)] = st[p].q[i].parentSquare
                 /\ \A j \in 1..Len(seen) : seen[j] \in Cells(solver.cols, solver.rows)
                 /\ \A j, k \in 1..Len(seen) : j # k => seen[j] # seen[k]
                 /\ \A j \in 1..(Len(seen) - 1) :
                      AdjacentCells(solver.cols, seen[j], seen[j + 1])

\* A state of the frontier whose path covers a board of 3 or more cells.
C18_Witness ==
    /\ st[1].pc = "inner"
    /\ solver.cols * solver.rows >= 3
    /\ \E i \in 1..Len(st[1].q) :
         Len(st[1].q[i].seen) = solver.cols * solver.rows

\* --------------------------------------------------------------------- C19
\* C19: the step that extends a dequeued state leaves that state and the
\* states already in the frontier as they are; it adds one state for each
\* neighbor of the parent's cell that is not in the parent's visited sequence
\* and whose letter continues the parent's prefix, each with the parent's
\* visited sequence plus that one cell and the parent's prefix plus that one
\* letter, whatever the siblings added.
C19_ExtensionIsolated ==
    [][ st[1].pc = "expand"
        => LET qn == st[1].qn
               old == st[1].q
               new == st'[1].q
               added == { new[i].parentSquare : i \in (Len(old) + 1)..Len(new) }
           IN  /\ st'[1].qn = qn
               /\ Len(new) >= Len(old)
               /\ SubSeq(new, 1, Len(old)) = old
               /\ \A i \in (Len(old) + 1)..Len(new) :
                    /\ new[i].seen = Append(qn.seen, new[i].parentSquare)
                    /\ new[i].parentTrie
                       = Append(qn.parentTrie, st[1].board[new[i].parentSquare + 1])
               /\ Cardinality(added) = Len(new) - Len(old)
               /\ added = { c \in Cells(solver.cols, solver.rows) :
                              /\ AdjacentCells(solver.cols, qn.parentSquare, c)
                              /\ c \notin Range(qn.seen)
                              /\ \E k \in Keys(solver.rt) :
                                   IsPrefix(Append(qn.parentTrie, st[1].board[c + 1]), k) }
      ]_vars

\* Two states in the frontier that extend the same parent by different cells.
C19_Witness ==
    /\ st[1].pc = "inner"
    /\ \E i, j \in 1..Len(st[1].q) :
         LET a == st[1].q[i].seen
             b == st[1].q[j].seen
         IN  /\ i < j /\ Len(a) >= 2 /\ Len(a) = Len(b)
             /\ SubSeq(a, 1, Len(a) - 1) = SubSeq(b, 1, Len(b) - 1)
             /\ a[Len(a)] # b[Len(b)]

\* --------------------------------------------------------------------- C20
\* C20: the state of a starting cell is enqueued only into an empty frontier;
\* starting cells are taken in increasing index order, one at a time; the
\* frontier holds states of the current starting cell only, in order of path
\* length, none shorter than the state being extended; states leave the
\* frontier at its front, so within one starting cell the path length of the
\* dequeued states never decreases.
C20_BreadthFirstPerStart ==
    /\ [](/\ st[1].pc \in {"outer", "done", "idle"} => st[1].q = <<>>
          /\ \A i \in 1..Len(st[1].q) : st[1].q[i].seen[1] = st[1].initSq
          /\ \A i, j \in 1..Len(st[1].q) :
               i < j => Len(st[1].q[i].seen) <= Len(st[1].q[j].seen)
          /\ st[1].pc = "expand"
             => \A i \in 1..Len(st[1].q) :
                  Len(st[1].qn.seen) <= Len(st[1].q[i].seen))
    /\ [][ /\ st'[1].initSq \in {st[1].initSq, st[1].initSq + 1}
           /\ st[1].pc = "outer" /\ st'[1].pc = "inner"
              => /\ st[1].q = <<>>
                 /\ Len(st'[1].q) = 1
                 /\ st'[1].q[1].seen = <<st[1].initSq>>
           /\ st[1].pc = "inner" /\ st'[1].pc = "expand"
              => /\ st'[1].qn = st[1].q[1]
                 /\ st'[1].q = Tail(st[1].q)
                 /\ \/ Len(st'[1].qn.seen) >= Len(st[1].qn.seen)
                    \/ st'[1].qn.seen = <<st[1].initSq>>
         ]_vars

\* The second starting cell or a later one, a state of two or more cells
\* being extended, others waiting behind it.
C20_Witness ==
    /\ st[1].pc = "expand"
    /\ st[1].initSq >= 1
    /\ Len(st[1].qn.seen) >= 2
    /\ Len(st[1].q) >= 2

\* --------------------------------------------------------------------- C21
\* C21: on a solver with a dictionary, a Solve call on a grid of exactly
\* columns*rows bytes, whatever the bytes, never ends in a runtime failure
\* and, once it has started its search, eventually returns a word list with
\* no error.
C21_SolveTerminates ==
    /\ [](st[1].pc # "panic")
    /\ (solver.rt # NilTree /\ st[1].pc \in {"outer", "inner", "expand"})
       ~> (st[1].pc = "done" /\ st[1].err = "")

\* --------------------------------------------------------------------- C22
\* C22: a word is recorded at the extension that completes it and the state
\* that completes it stays in the search: every state of the frontier whose
\* prefix is a dictionary key has its word in the raw results already, and
\* when a simple path spells a key and a longer simple path that starts with
\* it spells another key, the finished call has both words in its raw results.
C22_PrefixWordAndLongerWord ==
    \A p \in Procs :
        /\ st[p].pc \in {"inner", "expand"}
           => \A i \in 1..Len(st[p].q) :
                HasItem(solver.rt, st[p].q[i].parentTrie)
                => Rehydrate(ItemKey(st[p].q[i].parentTrie)) \in Range(st[p].words)
        /\ st[p].pc = "done" /\ st[p].err = ""
           => \A path \in SimplePaths(solver.cols, solver.rows) :
                \A n \in 1..(Len(path) - 1) :
                   LET short == Letters(st[p].board, SubSeq(path, 1, n))
                       long == Letters(st[p].board, path)
                   IN  short \in Keys(solver.rt) /\ long \in Keys(solver.rt)
                       => /\ OutputWord(short) \in Range(st[p].words)
                          /\ OutputWord(long) \in Range(st[p].words)

\* A finished call on a board where one path spells "aaa" and its extension
\* by one cell spells "aaaa", both dictionary words.
C22_Witness ==
    /\ st[1].pc = "done" /\ st[1].err = ""
    /\ {<<97, 97, 97>>, <<97, 97, 97, 97>>} \subseteq Keys(solver.rt)
    /\ \E path \in SimplePaths(solver.cols, solver.rows) :
         /\ Len(path) = 4
         /\ Letters(st[1].board, path) = <<97, 97, 97, 97>>
    /\ {<<97, 97, 97>>, <<97, 97, 97, 97>>} \subseteq Range(st[1].words)

\* --------------------------------------------------------------------- C23
\* C23: for every input sequence of strings, uniqueSortedWords returns the
\* strictly increasing sequence that holds exactly the distinct strings of
\* the input, and the empty sequence for the empty input.
C23_SortedDistinct ==
    usw.pc = "done"
    => /\ StrictlyIncreasing(usw.out)
       /\ Range(usw.out) = Range(usw.arg)
       /\ (usw.arg = <<>> => usw.out = <<>>)

\* --------------------------------------------------------------------- C24
\* C24: in the Trie-based solver the precomputed adjacency matrix stands for
\* the computation on demand: it has columns*rows entries, the entry of cell
\* sq reads what calculateAdjacency returns for sq (the neighbors of sq), no
\* two entries share a buffer, and a Solve call has the same outcome on every
\* grid whether the solver was built with preCalcAdjacency or without.
C24_MatrixEquivalent ==
    bs.pc = "solved"
    => LET m == calculateAdjacencyMatrix(bs.xlen, bs.ylen)
           twin == NewSolver(bs.xlen, bs.ylen, bs.file, ~bs.preCalc).s
       IN  /\ Len(m.entries) = bs.xlen * bs.ylen
           /\ \A sq \in 0..(bs.xlen * bs.ylen - 1) :
                LET r == calculateAdjacencyBuf(bs.xlen, bs.ylen, sq, NewAdj)
                IN  /\ MatrixEntry(m, sq) = SliceOf(r, r.len)
                    /\ MatrixEntry(m, sq) = NeighborsInOrder(bs.xlen, bs.ylen, sq)
           /\ \A i, j \in 1..Len(m.entries) :
                i # j => m.entries[i].buf # m.entries[j].buf
           /\ bs.preCalc => bs.s.adjacency = m
           /\ twin.adjacency.nil = ~bs.s.adjacency.nil
           /\ BoggleSolve(twin, bs.grid) = bs.res

\* A call on a solver with the matrix, on a board of 4 cells, that returned
\* a word.
C24_Witness ==
    /\ bs.pc = "solved"
    /\ bs.preCalc /\ ~bs.s.adjacency.nil
    /\ bs.s.boardSize = 4
    /\ ~bs.res.panic /\ bs.res.err = ""
    /\ bs.res.out # <<>>

\* --------------------------------------------------------------------- C25
\* C25: in the Trie-based solver, a Solve call that passed the dictionary
\* check and the grid-length check ends without a runtime failure and
\* returns a word list with no error.
C25_TraversalCannotFail ==
    (bs.pc = "solved" /\ bs.s.root.kind = "node" /\ Len(bs.grid) = bs.s.boardSize)
    => ~bs.res.panic /\ bs.res.err = ""

====
